---- MODULE Spec2Model ----
(***************************************************************************)
(* PII detection and redaction: the client pipeline (Dashboard             *)
(* handleTextSubmit with detectEnhancedPII and getPersonEntities), the     *)
(* process-pii edge function (detectPII, applyRedaction) and the NER       *)
(* pipeline loader.                                                        *)
(*                                                                         *)
(* Text model.  A text is textLen characters; the character at 0-based     *)
(* offset i is written i, so a string cut out of the text is the sequence  *)
(* of the offsets it came from and two strings are equal exactly when they *)
(* hold the same characters of the text.  ws is the set of offsets holding *)
(* white space (what String.prototype.trim removes).  A character of a     *)
(* replacement string is written k * 100 + j: the j-th character of the    *)
(* replacement made by the k-th iteration of the splice loop.              *)
(*                                                                         *)
(* Regular expressions are not evaluated: the matches that regex.exec /    *)
(* text.matchAll deliver are inputs, delivered in the order the code       *)
(* iterates them (registry order, then left to right, never overlapping    *)
(* within one pattern), with the shape the pattern enforces (only          *)
(* EMAIL_SIGNATURE can begin or end with white space).  Confidences are    *)
(* percentages (0.85 is 85).                                                *)
(***************************************************************************)
EXTENDS Integers, Sequences, FiniteSets, TLC

\* Bounds of the model
MaxLen == 3
MaxEnt == 2
NCallers == 3

VARIABLES
  side,            \* which entry point runs: "client" or "server"
  textLen,         \* length of the submitted text
  ws,              \* offsets of the text that hold white space
  method,          \* selectedMethod (client) / redactionMethod (server)
  constAssign,     \* what `matchText = cleanName.trim()` on a const does in the build
  pc,              \* position of the handler
  cursor,          \* pattern and offset the match iteration has reached
  budget,          \* matches and recognizer entries still allowed by MaxEnt
  entities,        \* detectEnhancedPII / detectPII entity list, then the merged list
  candidates,      \* detectPII's sorted candidate array when the resolver ran
  entityId,        \* detectEnhancedPII's entityId counter
  sortedEntities,  \* the splice loop's descending-start copy
  idx,             \* number of splice iterations done
  redactedText,    \* the working text of the splice loop
  replacements,    \* the replacement chosen by each splice iteration
  entityCounts,    \* applyRedaction's per-type counter
  processingResult,\* Dashboard state: the ProcessingResult, or NoResult
  toast,           \* title of the toast shown by handleTextSubmit
  isProcessing,    \* Dashboard state
  response,        \* the process-pii response
  nerPipeline,     \* ner.ts module variable: the cached pipeline, 0 when null
  callerPc,        \* position of each concurrent getPersonEntities call
  callerNer,       \* pipeline instance each call obtained from loadPipeline
  loadsStarted,    \* number of pipeline(...) calls started
  arg,             \* argument of the function called on its own
  locals,          \* that call's local variables and position
  ret,             \* that call's return value, NoReturn before it returns
  processing_results \* rows of the table public.processing_results

vars == << side, textLen, ws, method, constAssign, pc, cursor, budget, entities,
           candidates, entityId, sortedEntities, idx, redactedText, replacements,
           entityCounts, processingResult, toast, isProcessing, response,
           nerPipeline, callerPc, callerNer, loadsStarted, arg, locals, ret,
           processing_results >>

runVars == << side, textLen, ws, method, constAssign, pc, cursor, budget, entities,
              candidates, entityId, sortedEntities, idx, redactedText, replacements,
              entityCounts, processingResult, toast, isProcessing, response >>

nerVars == << nerPipeline, callerPc, callerNer, loadsStarted >>

fnVars == << arg, locals, ret >>

dbVars == << processing_results >>

----------------------------------------------------------------------------
\* Strings over the text

Min(a, b) == IF a <= b THEN a ELSE b
Max(a, b) == IF a >= b THEN a ELSE b

\* text.slice(from, to) / text.substring(from, to) of the original text
TextSlice(from, to) == [k \in 1 .. Max(0, to - from) |-> from + k - 1]

\* The original text
OriginalText == TextSlice(0, textLen)

\* s.substring(a, b) for 0 <= a, b: both ends clamped to the length
Substring(s, a, b) ==
  LET lo == Min(Min(a, b), Len(s))
      hi == Min(Max(a, b), Len(s))
  IN  [k \in 1 .. (hi - lo) |-> s[lo + k]]

\* s.substring(a) / s.slice(a) for a >= 0
SubstringFrom(s, a) == Substring(s, a, Len(s))

\* String.prototype.trim() of the text range [from, to): the trimmed range
TrimLead(from, to) ==
  IF \A i \in from .. to - 1 : i \in ws THEN to - from
  ELSE (CHOOSE i \in from .. to - 1 :
          i \notin ws /\ \A j \in from .. i - 1 : j \in ws) - from

TrimTrail(from, to) ==
  IF \A i \in from .. to - 1 : i \in ws THEN 0
  ELSE (to - 1) - (CHOOSE i \in from .. to - 1 :
          i \notin ws /\ \A j \in i + 1 .. to - 1 : j \in ws)

\* text.trim() is empty
\* Faulty variant of TrimIsEmpty: the guard tests for a missing text only, and a
\* string is never missing
TextIsMissing == FALSE

TrimIsEmpty == \A i \in 0 .. textLen - 1 : i \in ws

\* Characters written by the k-th splice iteration
ReplacementChars(k, n) == [j \in 1 .. n |-> k * 100 + j]
IsOriginalChar(c) == c < 100

NoResult == [kind |-> "none"]
NoResponse == [status |-> 0]
NoCall == [fn |-> "none"]
NoReturn == [done |-> FALSE]

----------------------------------------------------------------------------
\* Pattern registries (the entries whose matches the model delivers, in the
\* registries' own order)

\* enhancedPIIPatterns: key, type = key.toUpperCase(), confidence
enhancedPIIPatterns ==
  << [key |-> "email",       type |-> "EMAIL",       confidence |-> 98],
     [key |-> "bankAccount", type |-> "BANKACCOUNT", confidence |-> 75],
     [key |-> "name",        type |-> "NAME",        confidence |-> 95],
     [key |-> "username",    type |-> "USERNAME",    confidence |-> 88] >>

\* PII_PATTERNS: type, confidence, category
PII_PATTERNS ==
  << [type |-> "PERSON",          confidence |-> 85, category |-> "high"],
     [type |-> "PHONE_NUMBER",    confidence |-> 92, category |-> "high"],
     [type |-> "PASSPORT_NUMBER", confidence |-> 85, category |-> "high"],
     [type |-> "POSTAL_CODE",     confidence |-> 75, category |-> "low"],
     [type |-> "EMAIL_SIGNATURE", confidence |-> 80, category |-> "medium"] >>

\* Number of characters of a type name, as it is written into a placeholder
TypeNameLength(type) ==
  CASE type = "EMAIL" -> 5
    [] type = "BANKACCOUNT" -> 11
    [] type = "NAME" -> 4
    [] type = "USERNAME" -> 8
    [] type = "PERSON" -> 6
    [] type = "PHONE_NUMBER" -> 12
    [] type = "PASSPORT_NUMBER" -> 15
    [] type = "POSTAL_CODE" -> 11
    [] type = "EMAIL_SIGNATURE" -> 15

ServerTypes == {PII_PATTERNS[p].type : p \in DOMAIN PII_PATTERNS}

\* confidence >= 0.9 ? 'high' : confidence >= 0.8 ? 'medium' : 'low'
Category(confidence) ==
  IF confidence >= 90 THEN "high" ELSE IF confidence >= 80 THEN "medium" ELSE "low"

\* Number of decimal digits of n >= 0 (the length of `${n}`)
Digits(n) == IF n < 10 THEN 1 ELSE IF n < 100 THEN 2 ELSE 3

----------------------------------------------------------------------------
\* Array.prototype.sort with a comparator on start: a stable insertion sort

RECURSIVE InsertAsc(_, _)
InsertAsc(sorted, e) ==
  IF sorted = << >> THEN << e >>
  ELSE IF sorted[Len(sorted)].start <= e.start THEN Append(sorted, e)
  ELSE Append(InsertAsc(SubSeq(sorted, 1, Len(sorted) - 1), e), sorted[Len(sorted)])

RECURSIVE SortAscending(_)
\* list.sort((a, b) => a.start - b.start)
SortAscending(list) ==
  IF list = << >> THEN << >>
  ELSE InsertAsc(SortAscending(SubSeq(list, 1, Len(list) - 1)), list[Len(list)])

RECURSIVE InsertDesc(_, _)
InsertDesc(sorted, e) ==
  IF sorted = << >> THEN << e >>
  ELSE IF sorted[Len(sorted)].start >= e.start THEN Append(sorted, e)
  ELSE Append(InsertDesc(SubSeq(sorted, 1, Len(sorted) - 1), e), sorted[Len(sorted)])

RECURSIVE SortDescending(_)
\* [...list].sort((a, b) => b.start - a.start)
SortDescending(list) ==
  IF list = << >> THEN << >>
  ELSE InsertDesc(SortDescending(SubSeq(list, 1, Len(list) - 1)), list[Len(list)])

\* list.filter(e => e.type === type)
RECURSIVE FilterType(_, _)
FilterType(list, type) ==
  IF list = << >> THEN << >>
  ELSE LET rest == FilterType(SubSeq(list, 1, Len(list) - 1), type)
           e == list[Len(list)]
       IN  IF e.type = type THEN Append(rest, e) ELSE rest

----------------------------------------------------------------------------
\* Server: overlap resolution of detectPII

\* Faulty variant of ResolverOverlap: the resolver's test without its first clause
ResolverOverlapNoStartInside(entity, existing) ==
  \/ (entity.end > existing.start /\ entity.end <= existing.end)
  \/ (entity.start <= existing.start /\ entity.end >= existing.end)

\* Faulty variant of ResolverOverlap: the resolver's test without its third clause
ResolverOverlapNoCover(entity, existing) ==
  \/ (entity.start >= existing.start /\ entity.start < existing.end)
  \/ (entity.end > existing.start /\ entity.end <= existing.end)

\* The three-clause test of the resolver: entity against an accepted one
ResolverOverlap(entity, existing) ==
  \/ (entity.start >= existing.start /\ entity.start < existing.end)
  \/ (entity.end > existing.start /\ entity.end <= existing.end)
  \/ (entity.start <= existing.start /\ entity.end >= existing.end)

\* filteredEntities.findIndex(overlap), 0 when there is none
OverlappingIndex(filtered, entity) ==
  IF \E i \in DOMAIN filtered : ResolverOverlap(entity, filtered[i])
  THEN CHOOSE i \in DOMAIN filtered :
         /\ ResolverOverlap(entity, filtered[i])
         /\ \A j \in 1 .. i - 1 : ~ResolverOverlap(entity, filtered[j])
  ELSE 0

\* Faulty variant of ResolveStep: an overlapping entity replaces the accepted one
\* whatever the confidences
ResolveStepAlwaysReplaces(filtered, entity) ==
  LET i == OverlappingIndex(filtered, entity)
  IN  IF i = 0 THEN Append(filtered, entity)
      ELSE [filtered EXCEPT ![i] = entity]

\* Faulty variant of ResolveStep: an overlapping entity of equal confidence
\* replaces the accepted one too
ResolveStepReplacesOnTie(filtered, entity) ==
  LET i == OverlappingIndex(filtered, entity)
  IN  IF i = 0 THEN Append(filtered, entity)
      ELSE IF entity.confidence >= filtered[i].confidence
           THEN [filtered EXCEPT ![i] = entity]
           ELSE filtered

\* One iteration of `for (const entity of sortedEntities)`
ResolveStep(filtered, entity) ==
  LET i == OverlappingIndex(filtered, entity)
  IN  IF i = 0 THEN Append(filtered, entity)
      ELSE IF entity.confidence > filtered[i].confidence
           THEN [filtered EXCEPT ![i] = entity]
           ELSE filtered

RECURSIVE ResolveLoop(_, _)
ResolveLoop(filtered, rest) ==
  IF rest = << >> THEN filtered
  ELSE ResolveLoop(ResolveStep(filtered, Head(rest)), Tail(rest))

\* detectPII, after the match loop: sort, resolve, sort
FilteredEntities(list) ==
  SortAscending(ResolveLoop(<< >>, SortAscending(list)))

----------------------------------------------------------------------------
\* Client: getPersonEntities (ner.ts) as handleTextSubmit sees it

\* Scores the model attaches to an entry
NerScores == {85, 99}

\* Entries of the token-classification output for the text: consolidated spans
\* { entity_group, score, word, start, end } with word the text of the span
NerEntries ==
  { [entity_group |-> "PER", score |-> sc, word |-> TextSlice(sp[1], sp[2]),
     start |-> sp[1], end |-> sp[2]] :
      sc \in NerScores,
      sp \in {x \in (0 .. textLen - 1) \X (1 .. textLen) : x[1] < x[2]} }

\* Model outputs of at most n entries: a token classifier labels every token
\* once, so its consolidated spans come in reading order and are disjoint
NerOutputs(n) ==
  { o \in UNION { [1 .. k -> NerEntries] : k \in 0 .. n } :
      \A j \in 1 .. Len(o) - 1 : o[j].end <= o[j + 1].start }

\* Math.max(0, Math.min(1, Number(ent.score) || 0))
ClampScore(score) == Max(0, Min(100, score))

\* The for loop over the output: PER / PERSON entries become PersonEntity
RECURSIVE Persons(_)
Persons(output) ==
  IF output = << >> THEN << >>
  ELSE LET rest == Persons(SubSeq(output, 1, Len(output) - 1))
           ent == output[Len(output)]
       IN  IF ent.entity_group \in {"PER", "PERSON"}
           THEN Append(rest, [text |-> ent.word, start |-> ent.start, end |-> ent.end,
                              confidence |-> ClampScore(ent.score)])
           ELSE rest

\* `${e.start}-${e.end}`
spanKey(e) == << e.start, e.end >>

\* filter with the `seen` set: the first entry of each span is kept
RECURSIVE DedupeBySpan(_)
DedupeBySpan(list) ==
  IF list = << >> THEN << >>
  ELSE LET rest == DedupeBySpan(SubSeq(list, 1, Len(list) - 1))
           e == list[Len(list)]
       IN  IF \E i \in DOMAIN rest : spanKey(rest[i]) = spanKey(e) THEN rest
           ELSE Append(rest, e)

\* Faulty variant of getPersonEntities: the persons are returned as collected
getPersonEntitiesUnfiltered(output) == Persons(output)

\* What getPersonEntities resolves with for a model output
getPersonEntities(output) == DedupeBySpan(Persons(output))

----------------------------------------------------------------------------
\* Client: handleTextSubmit after Promise.all resolved

\* nerPersons.map((p, idx) => ({ id: `name_${idx + 1}`, type: 'NAME', ... }))
nerNameEntities(nerPersons) ==
  [i \in DOMAIN nerPersons |->
     [id |-> << "name", i >>, type |-> "NAME", text |-> nerPersons[i].text,
      start |-> nerPersons[i].start, end |-> nerPersons[i].end,
      confidence |-> nerPersons[i].confidence,
      category |-> Category(nerPersons[i].confidence)]]

\* mergedMap: [...regexEntities, ...nerNameEntities], first entry of a span wins,
\* Array.from(mergedMap.values()) keeps insertion order
MergedEntities(regexEntities, nerNames) == DedupeBySpan(regexEntities \o nerNames)

\* Faulty variant of nameEntitiesInOrder: the NAME entities in merge order
nameEntitiesUnsorted(list) == FilterType(list, "NAME")

\* nameEntitiesInOrder
nameEntitiesInOrder(list) == SortAscending(FilterType(list, "NAME"))

\* nameIndexMap.get(key): the last index set for the key, undefined (0) without one
nameIndexMapGet(list, key) ==
  LET names == nameEntitiesInOrder(list)
      hits == {i \in DOMAIN names : spanKey(names[i]) = key}
  IN  IF hits = {} THEN 0 ELSE CHOOSE i \in hits : \A j \in hits : j <= i

\* The ids of enhancedRedactionMethods, which the method cards of the results
\* view hand to onMethodChange
EnhancedMethodIds ==
  {"Smart Placeholders", "Contextual Masking", "Synthetic Data", "Cryptographic Hash",
   "Partial Visibility"}

\* Methods the Dashboard can hold in selectedMethod when a text is submitted: the
\* names of redactionMethods (methods tab) and, after a visit of the results view,
\* the ids of its cards; one id stands for those the switch has no case for
SelectableMethods ==
  {"Smart Placeholders", "Complete Removal", "Tokenization", "Partial Masking",
   "Contextual Masking"}

\* The case labels of the switch on selectedMethod
ClientCaseLabels == {"Smart Placeholders", "Complete Removal", "Tokenization", "Masking"}

\* Lengths of Math.random().toString(36).substr(2, 8) the model draws
TokenSuffixLengths == {1, 8}

\* The switch on selectedMethod: the replacement of one entity, as
\* [kind, type, num, len]; tokenLen is the length of the random suffix
ClientReplacement(entity, list, m, tokenLen) ==
  CASE m = "Complete Removal" ->
         [kind |-> "removal", type |-> entity.type, num |-> 0, len |-> 0]
    [] m = "Tokenization" ->
         [kind |-> "token", type |-> entity.type, num |-> 0, len |-> 6 + tokenLen]
    [] m = "Masking" ->
         [kind |-> "mask", type |-> entity.type, num |-> 0,
          len |-> Min(Len(entity.text), 8)]
    [] OTHER ->
         IF entity.type = "NAME"
         THEN LET got == nameIndexMapGet(list, spanKey(entity))
                  i == IF got = 0 THEN 1 ELSE got
              IN  [kind |-> "placeholder", type |-> "NAME", num |-> i,
                   len |-> 7 + Digits(i)]
         ELSE [kind |-> "placeholder", type |-> entity.type, num |-> 0,
               len |-> TypeNameLength(entity.type) + 2]

\* Faulty variant of Splice: `after` cut at entity.start instead of entity.end
SpliceKeepingSpan(working, entity, k, replacement) ==
  Substring(working, 0, entity.start)
    \o ReplacementChars(k, replacement.len)
    \o SubstringFrom(working, entity.start)

\* before + replacement + after
Splice(working, entity, k, replacement) ==
  Substring(working, 0, entity.start)
    \o ReplacementChars(k, replacement.len)
    \o SubstringFrom(working, entity.end)

----------------------------------------------------------------------------
\* Server: applyRedaction

\* Redaction methods a process-pii request of the model carries: two supported
\* names whose replacement does not depend on the characters of the entity, and a
\* name applyRedaction does not know
RequestMethods == {"Smart Placeholders", "Cryptographic Hash", "Complete Removal"}

\* The case labels of the switch on method
ServerCaseLabels ==
  {"Smart Placeholders", "Contextual Masking", "Synthetic Data", "Cryptographic Hash",
   "Partial Visibility"}

\* Faulty variant of ServerReplacement: the default branch leaves the entity's text in place
ServerReplacementDefaultKeepsText(entity, entityNum, m) ==
  CASE m = "Smart Placeholders" ->
         [kind |-> "placeholder", type |-> entity.type, num |-> entityNum,
          len |-> TypeNameLength(entity.type) + 3 + Max(2, Digits(entityNum))]
    [] m = "Cryptographic Hash" ->
         [kind |-> "hash", type |-> entity.type, num |-> 0,
          len |-> TypeNameLength(entity.type) + 16]
    [] OTHER ->
         [kind |-> "text", type |-> entity.type, num |-> 0, len |-> Len(entity.text)]

\* The switch on method
ServerReplacement(entity, entityNum, m) ==
  CASE m = "Smart Placeholders" ->
         [kind |-> "placeholder", type |-> entity.type, num |-> entityNum,
          len |-> TypeNameLength(entity.type) + 3 + Max(2, Digits(entityNum))]
    [] m = "Cryptographic Hash" ->
         [kind |-> "hash", type |-> entity.type, num |-> 0,
          len |-> TypeNameLength(entity.type) + 16]
    [] OTHER ->
         [kind |-> "redacted", type |-> entity.type, num |-> 0, len |-> 10]

----------------------------------------------------------------------------
\* Aggregate confidence.  A quotient is kept as the fraction [num, den] of the
\* percents, so that no rounding enters the model

\* entities.reduce((sum, e) => sum + e.confidence, 0)
RECURSIVE SumConfidence(_)
SumConfidence(list) ==
  IF list = << >> THEN 0 ELSE Head(list).confidence + SumConfidence(Tail(list))

\* handleTextSubmit: averageConfidence
averageConfidence(list) ==
  IF Len(list) > 0 THEN [num |-> SumConfidence(list), den |-> Len(list)]
  ELSE [num |-> 0, den |-> 1]

\* process-pii: overallConfidence
overallConfidence(list) ==
  IF Len(list) > 0 THEN [num |-> SumConfidence(list), den |-> Len(list)]
  ELSE [num |-> 100, den |-> 1]

----------------------------------------------------------------------------
\* Initial state: a text is submitted to one of the two entry points

\* White space of the submitted text.  The client reads it only in text.trim() of
\* the entry guard, so a client text holds none or nothing else; the server trims
\* every match, so a server text holds it anywhere
WhiteSpaceChoices(sd, n) ==
  IF sd = "client" THEN {{}, 0 .. n - 1} ELSE SUBSET (0 .. n - 1)

Init ==
  /\ side \in {"client", "server"}
  /\ textLen \in 0 .. MaxLen
  /\ ws \in WhiteSpaceChoices(side, textLen)
  /\ method \in (IF side = "client" THEN SelectableMethods ELSE RequestMethods)
  /\ constAssign \in (IF side = "server" THEN {"throws", "assigns"} ELSE {"none"})
  /\ pc = "idle"
  /\ cursor = [p |-> 1, pos |-> 0]
  /\ budget = MaxEnt
  /\ entities = << >>
  /\ candidates = << >>
  /\ entityId = 1
  /\ sortedEntities = << >>
  /\ idx = 0
  /\ redactedText = << >>
  /\ replacements = << >>
  /\ entityCounts = [t \in ServerTypes |-> 0]
  /\ processingResult = NoResult
  /\ toast = "none"
  /\ isProcessing = FALSE
  /\ response = NoResponse
  /\ nerPipeline = 0
  /\ callerPc = [c \in 1 .. NCallers |-> "idle"]
  /\ callerNer = [c \in 1 .. NCallers |-> 0]
  /\ loadsStarted = 0
  /\ processing_results = << >>
  /\ arg = << >>
  /\ locals = NoCall
  /\ ret = NoReturn

----------------------------------------------------------------------------
\* Client: Dashboard.handleTextSubmit

\* Entry: the empty-text guard, setIsProcessing(true)
HandleTextSubmit ==
  /\ pc = "idle" /\ side = "client"
  /\ IF TrimIsEmpty
     THEN /\ toast' = "No Text Provided"
          /\ pc' = "done"
          /\ UNCHANGED isProcessing
     ELSE /\ isProcessing' = TRUE
          /\ pc' = "detect"
          /\ UNCHANGED toast
  /\ UNCHANGED << side, textLen, ws, method, constAssign, cursor, budget, entities,
                  candidates, entityId, sortedEntities, idx, redactedText, replacements,
                  entityCounts, processingResult, response >>
  /\ UNCHANGED nerVars
  /\ UNCHANGED << fnVars, dbVars >>

\* detectEnhancedPII: one iteration of `while ((match = regex.exec(text)) !== null)`
\* for pattern p, the match being text[i, i + n); valid is the verdict of the
\* pattern's validator (isValidPersonName for name, none for the other three)
DetectEnhancedMatch ==
  /\ pc = "detect" /\ side = "client"
  /\ budget > 0
  /\ \E p \in DOMAIN enhancedPIIPatterns, i \in 0 .. textLen - 1, n \in 1 .. textLen,
        valid \in BOOLEAN :
       /\ p >= cursor.p
       /\ p = cursor.p => i >= cursor.pos
       /\ i + n <= textLen
       /\ i \notin ws /\ (i + n - 1) \notin ws
       /\ enhancedPIIPatterns[p].key # "name" => valid
       /\ cursor' = [p |-> p, pos |-> i + n]
       /\ IF valid
          THEN /\ entities' = Append(entities,
                    [id |-> << enhancedPIIPatterns[p].key, entityId >>,
                     type |-> enhancedPIIPatterns[p].type,
                     text |-> TextSlice(i, i + n),
                     start |-> i,
                     end |-> i + n,
                     confidence |-> enhancedPIIPatterns[p].confidence,
                     category |-> Category(enhancedPIIPatterns[p].confidence)])
               /\ entityId' = entityId + 1
          ELSE UNCHANGED << entities, entityId >>
  /\ budget' = budget - 1
  /\ UNCHANGED << side, textLen, ws, method, constAssign, pc, candidates, sortedEntities,
                  idx, redactedText, replacements, entityCounts, processingResult,
                  toast, isProcessing, response >>
  /\ UNCHANGED nerVars
  /\ UNCHANGED << fnVars, dbVars >>

\* Promise.all rejects because getPersonEntities rejected: catch, finally
GetPersonEntitiesRejects ==
  /\ pc = "detect" /\ side = "client"
  /\ toast' = "Processing Failed"
  /\ isProcessing' = FALSE
  /\ pc' = "done"
  /\ UNCHANGED << side, textLen, ws, method, constAssign, cursor, budget, entities,
                  candidates, entityId, sortedEntities, idx, redactedText, replacements,
                  entityCounts, processingResult, response >>
  /\ UNCHANGED nerVars
  /\ UNCHANGED << fnVars, dbVars >>

\* Promise.all resolves: map the persons, merge by span, prepare the splice loop
GetPersonEntitiesResolves ==
  /\ pc = "detect" /\ side = "client"
  /\ \E output \in NerOutputs(budget) :
       LET nerNames == nerNameEntities(getPersonEntities(output))
           merged == MergedEntities(entities, nerNames)
       IN  /\ candidates' = entities \o nerNames
           /\ entities' = merged
           /\ sortedEntities' = SortDescending(merged)
           /\ budget' = budget - Len(output)
  /\ redactedText' = OriginalText
  /\ idx' = 0
  /\ pc' = "splice"
  /\ UNCHANGED << side, textLen, ws, method, constAssign, cursor, entityId,
                  replacements, entityCounts, processingResult, toast, isProcessing,
                  response >>
  /\ UNCHANGED nerVars
  /\ UNCHANGED << fnVars, dbVars >>

\* One iteration of sortedEntities.forEach
ClientSpliceStep ==
  /\ pc = "splice" /\ side = "client"
  /\ idx < Len(sortedEntities)
  /\ \E tokenLen \in TokenSuffixLengths :
       LET entity == sortedEntities[idx + 1]
           replacement == ClientReplacement(entity, entities, method, tokenLen)
       IN  /\ method # "Tokenization" => tokenLen = 8
           /\ redactedText' = Splice(redactedText, entity, idx + 1, replacement)
           /\ replacements' = Append(replacements, replacement)
  /\ idx' = idx + 1
  /\ UNCHANGED << side, textLen, ws, method, constAssign, pc, cursor, budget, entities,
                  candidates, entityId, sortedEntities, entityCounts, processingResult, toast,
                  isProcessing, response >>
  /\ UNCHANGED nerVars
  /\ UNCHANGED << fnVars, dbVars >>

\* After the loop: setProcessingResult(result), the completion toast, finally
ClientFinish ==
  /\ pc = "splice" /\ side = "client"
  /\ idx = Len(sortedEntities)
  /\ processingResult' =
       [kind |-> "result", originalText |-> OriginalText, redactedText |-> redactedText,
        entities |-> entities, method |-> method,
        confidence |-> averageConfidence(entities)]
  /\ toast' = "Processing Complete"
  /\ isProcessing' = FALSE
  /\ pc' = "done"
  /\ UNCHANGED << side, textLen, ws, method, constAssign, cursor, budget, entities,
                  candidates, entityId, sortedEntities, idx, redactedText, replacements,
                  entityCounts, response >>
  /\ UNCHANGED nerVars
  /\ UNCHANGED << fnVars, dbVars >>

----------------------------------------------------------------------------
\* Server: the process-pii handler

NameTypes == {"PERSON", "FULL_NAME", "TITLE_NAME"}

\* What the name filter of detectPII finds for one match: reject (a
\* documentRejectPatterns hit), strip (characters the two cleanName.replace calls
\* remove from the end), partsOk (cleanName has two or more parts of two or more
\* characters), common (a part is in commonNames)
NameVerdicts ==
  { [reject |-> TRUE,  strip |-> 0, partsOk |-> TRUE,  common |-> FALSE],
    [reject |-> FALSE, strip |-> 0, partsOk |-> TRUE,  common |-> FALSE],
    [reject |-> FALSE, strip |-> 0, partsOk |-> TRUE,  common |-> TRUE],
    [reject |-> FALSE, strip |-> 1, partsOk |-> TRUE,  common |-> FALSE],
    [reject |-> FALSE, strip |-> 1, partsOk |-> FALSE, common |-> FALSE] }

NoVerdict == [reject |-> FALSE, strip |-> 0, partsOk |-> TRUE, common |-> FALSE]

\* Shape of a match of pattern type at text[i, i + n): every modelled pattern but
\* EMAIL_SIGNATURE begins and ends with a character that is no white space;
\* EMAIL_SIGNATURE (\b[A-Za-z\s]+ ... [\d\s\-\(\)]+) can begin with white space
\* that follows a word character, and can end with white space
MatchShape(type, i, n) ==
  IF type = "EMAIL_SIGNATURE"
  THEN /\ \E j \in i .. i + n - 1 : j \notin ws
       /\ i \in ws => (i >= 1 /\ (i - 1) \notin ws)
  ELSE i \notin ws /\ (i + n - 1) \notin ws

\* shouldInclude after the name filter
ShouldInclude(type, verdict) ==
  type \in NameTypes => (~verdict.reject /\ verdict.partsOk)

\* The entity detectPII pushes for a match of config at text[i, i + n):
\* matchText = match[0].trim(), for names the cleaned name and the boost,
\* start = match.index, end = match.index + matchText.length
PushedEntity(config, i, n, verdict) ==
  LET lead == TrimLead(i, i + n)
      trail == TrimTrail(i, i + n)
      isName == config.type \in NameTypes
      matchLen == IF isName THEN n - lead - trail - verdict.strip ELSE n - lead - trail
      confidence == IF isName /\ verdict.common
                    THEN Min(95, config.confidence + 10)
                    ELSE config.confidence
  IN  [type |-> config.type,
       text |-> TextSlice(i + lead, i + lead + matchLen),
       start |-> i,
       end |-> i + matchLen,
       confidence |-> confidence,
       category |-> config.category]

\* Entry: `if (!text)` answers 400
ProcessPiiRequest ==
  /\ pc = "idle" /\ side = "server"
  /\ IF textLen = 0
     THEN /\ response' = [status |-> 400, error |-> "Text is required"]
          /\ pc' = "done"
     ELSE /\ pc' = "detect"
          /\ UNCHANGED response
  /\ UNCHANGED << side, textLen, ws, method, constAssign, cursor, budget, entities,
                  candidates, entityId, sortedEntities, idx, redactedText, replacements,
                  entityCounts, processingResult, toast, isProcessing >>
  /\ UNCHANGED nerVars
  /\ UNCHANGED << fnVars, dbVars >>

\* detectPII: one iteration of `for (const match of matches)` for pattern p.
\* Line 290 assigns to the const matchText: where the build lets that throw, the
\* handler's catch answers 500
DetectPIIMatch ==
  /\ pc = "detect" /\ side = "server"
  /\ budget > 0
  /\ \E p \in DOMAIN PII_PATTERNS, i \in 0 .. textLen - 1, n \in 1 .. textLen,
        verdict \in NameVerdicts \cup {NoVerdict} :
       LET config == PII_PATTERNS[p]
           isName == config.type \in NameTypes
       IN  /\ p >= cursor.p
           /\ p = cursor.p => i >= cursor.pos
           /\ i + n <= textLen
           /\ MatchShape(config.type, i, n)
           /\ ~isName => verdict = NoVerdict
           /\ verdict.strip < n
           /\ cursor' = [p |-> p, pos |-> i + n]
           /\ IF isName /\ ShouldInclude(config.type, verdict) /\ constAssign = "throws"
              THEN /\ response' = [status |-> 500, error |-> "Internal server error"]
                   /\ pc' = "done"
                   /\ UNCHANGED entities
              ELSE /\ entities' = IF ShouldInclude(config.type, verdict)
                                  THEN Append(entities, PushedEntity(config, i, n, verdict))
                                  ELSE entities
                   /\ UNCHANGED << response, pc >>
  /\ budget' = budget - 1
  /\ UNCHANGED << side, textLen, ws, method, constAssign, candidates, entityId,
                  sortedEntities, idx,
                  redactedText, replacements, entityCounts, processingResult, toast,
                  isProcessing >>
  /\ UNCHANGED nerVars
  /\ UNCHANGED << fnVars, dbVars >>

\* detectPII returns the resolved list; applyRedaction copies and sorts it
DetectPIIResolve ==
  /\ pc = "detect" /\ side = "server"
  /\ candidates' = SortAscending(entities)
  /\ entities' = FilteredEntities(entities)
  /\ sortedEntities' = SortDescending(FilteredEntities(entities))
  /\ redactedText' = OriginalText
  /\ idx' = 0
  /\ pc' = "splice"
  /\ UNCHANGED << side, textLen, ws, method, constAssign, cursor, budget, entityId,
                  replacements, entityCounts, processingResult, toast, isProcessing,
                  response >>
  /\ UNCHANGED nerVars
  /\ UNCHANGED << fnVars, dbVars >>

\* applyRedaction: one iteration of `for (const entity of sortedEntities)`
ApplyRedactionStep ==
  /\ pc = "splice" /\ side = "server"
  /\ idx < Len(sortedEntities)
  /\ LET entity == sortedEntities[idx + 1]
         entityNum == entityCounts[entity.type] + 1
         replacement == ServerReplacement(entity, entityNum, method)
     IN  /\ entityCounts' = [entityCounts EXCEPT ![entity.type] = entityNum]
         /\ redactedText' = Splice(redactedText, entity, idx + 1, replacement)
         /\ replacements' = Append(replacements, replacement)
  /\ idx' = idx + 1
  /\ UNCHANGED << side, textLen, ws, method, constAssign, pc, cursor, budget, entities,
                  candidates, entityId, sortedEntities, processingResult, toast, isProcessing,
                  response >>
  /\ UNCHANGED nerVars
  /\ UNCHANGED << fnVars, dbVars >>

\* The 200 response
ProcessPiiRespond ==
  /\ pc = "splice" /\ side = "server"
  /\ idx = Len(sortedEntities)
  /\ response' = [status |-> 200, originalText |-> OriginalText, entities |-> entities,
                  redactedText |-> redactedText, confidence |-> overallConfidence(entities),
                  totalEntities |-> Len(entities)]
  /\ pc' = "done"
  /\ UNCHANGED << side, textLen, ws, method, constAssign, cursor, budget, entities,
                  candidates, entityId, sortedEntities, idx, redactedText, replacements,
                  entityCounts, processingResult, toast, isProcessing >>
  /\ UNCHANGED nerVars
  /\ UNCHANGED << fnVars, dbVars >>

----------------------------------------------------------------------------
Next ==
  \/ HandleTextSubmit
  \/ DetectEnhancedMatch
  \/ GetPersonEntitiesRejects
  \/ GetPersonEntitiesResolves
  \/ ClientSpliceStep
  \/ ClientFinish
  \/ ProcessPiiRequest
  \/ DetectPIIMatch
  \/ DetectPIIResolve
  \/ ApplyRedactionStep
  \/ ProcessPiiRespond

Spec == Init /\ [][Next]_vars

----------------------------------------------------------------------------
\* ner.ts: concurrent getPersonEntities calls and the pipeline loader.
\* A pipeline instance is named by the number of the pipeline(...) call that
\* made it; nerPipeline = 0 is null.

InitNer ==
  /\ side = "client"
  /\ textLen = 0
  /\ ws = {}
  /\ method = "Smart Placeholders"
  /\ constAssign = "none"
  /\ pc = "idle"
  /\ cursor = [p |-> 1, pos |-> 0]
  /\ budget = MaxEnt
  /\ entities = << >>
  /\ candidates = << >>
  /\ entityId = 1
  /\ sortedEntities = << >>
  /\ idx = 0
  /\ redactedText = << >>
  /\ replacements = << >>
  /\ entityCounts = [t \in ServerTypes |-> 0]
  /\ processingResult = NoResult
  /\ toast = "none"
  /\ isProcessing = FALSE
  /\ response = NoResponse
  /\ nerPipeline = 0
  /\ callerPc = [c \in 1 .. NCallers |-> "idle"]
  /\ callerNer = [c \in 1 .. NCallers |-> 0]
  /\ loadsStarted = 0
  /\ processing_results = << >>
  /\ arg = << >>
  /\ locals = NoCall
  /\ ret = NoReturn

\* getPersonEntities calls loadPipeline, which runs up to its first await:
\* `if (!nerPipeline)` starts pipeline(...), otherwise returns the cached one
loadPipeline(c) ==
  /\ callerPc[c] = "idle"
  /\ IF nerPipeline = 0
     THEN /\ loadsStarted' = loadsStarted + 1
          /\ callerNer' = [callerNer EXCEPT ![c] = loadsStarted + 1]
          /\ callerPc' = [callerPc EXCEPT ![c] = "loading"]
     ELSE /\ callerNer' = [callerNer EXCEPT ![c] = nerPipeline]
          /\ callerPc' = [callerPc EXCEPT ![c] = "inference"]
          /\ UNCHANGED loadsStarted
  /\ UNCHANGED nerPipeline
  /\ UNCHANGED runVars
  /\ UNCHANGED << fnVars, dbVars >>

\* The awaited pipeline(...) resolves: nerPipeline = <the new instance>; return nerPipeline
PipelineResolves(c) ==
  /\ callerPc[c] = "loading"
  /\ nerPipeline' = callerNer[c]
  /\ callerPc' = [callerPc EXCEPT ![c] = "inference"]
  /\ UNCHANGED << callerNer, loadsStarted >>
  /\ UNCHANGED runVars
  /\ UNCHANGED << fnVars, dbVars >>

\* The awaited pipeline(...) rejects: loadPipeline and getPersonEntities reject
PipelineRejects(c) ==
  /\ callerPc[c] = "loading"
  /\ callerPc' = [callerPc EXCEPT ![c] = "rejected"]
  /\ callerNer' = [callerNer EXCEPT ![c] = 0]
  /\ UNCHANGED << nerPipeline, loadsStarted >>
  /\ UNCHANGED runVars
  /\ UNCHANGED << fnVars, dbVars >>

\* await ner(text, ...) resolves and the call returns its persons
InferenceResolves(c) ==
  /\ callerPc[c] = "inference"
  /\ callerPc' = [callerPc EXCEPT ![c] = "resolved"]
  /\ UNCHANGED << nerPipeline, callerNer, loadsStarted >>
  /\ UNCHANGED runVars
  /\ UNCHANGED << fnVars, dbVars >>

\* await ner(text, ...) rejects
InferenceRejects(c) ==
  /\ callerPc[c] = "inference"
  /\ callerPc' = [callerPc EXCEPT ![c] = "rejected"]
  /\ UNCHANGED << nerPipeline, callerNer, loadsStarted >>
  /\ UNCHANGED runVars
  /\ UNCHANGED << fnVars, dbVars >>

NextNer ==
  \E c \in 1 .. NCallers :
    \/ loadPipeline(c)
    \/ PipelineResolves(c)
    \/ PipelineRejects(c)
    \/ InferenceResolves(c)
    \/ InferenceRejects(c)

SpecNer == InitNer /\ [][NextNer]_vars

----------------------------------------------------------------------------
\* Functions called on their own: no text is submitted and no recognizer call is
\* made while one of them runs

RunIdle ==
  /\ side = "client"
  /\ textLen = 0
  /\ ws = {}
  /\ method = "Smart Placeholders"
  /\ constAssign = "none"
  /\ pc = "idle"
  /\ cursor = [p |-> 1, pos |-> 0]
  /\ budget = MaxEnt
  /\ entities = << >>
  /\ candidates = << >>
  /\ entityId = 1
  /\ sortedEntities = << >>
  /\ idx = 0
  /\ redactedText = << >>
  /\ replacements = << >>
  /\ entityCounts = [t \in ServerTypes |-> 0]
  /\ processingResult = NoResult
  /\ toast = "none"
  /\ isProcessing = FALSE
  /\ response = NoResponse
  /\ nerPipeline = 0
  /\ callerPc = [c \in 1 .. NCallers |-> "idle"]
  /\ callerNer = [c \in 1 .. NCallers |-> 0]
  /\ loadsStarted = 0
  /\ processing_results = << >>

\* A character of an argument string is a digit 0 .. 9, or NonDigit for any
\* character \D matches
NonDigit == 0 - 1
IsDigit(c) == c >= 0

\* number.replace(/\D/g, '')
StripNonDigits(string) == SelectSeq(string, IsDigit)

----------------------------------------------------------------------------
\* ocrProcessor.ts: isValidCreditCard

\* Longest card number string the model passes
MaxCardLen == 20

\* The digit strings 4 1 1 ... 1 of length len with digit a at place p and digit
\* d at the end
CardDigits(len, p, a, d) ==
  [k \in 1 .. len |-> IF k = len THEN d ELSE IF k = p THEN a ELSE IF k = 1 THEN 4 ELSE 1]

\* The string with a separator put in after its fourth character
WithSeparator(string) ==
  IF Len(string) < 4 THEN Append(string, NonDigit)
  ELSE SubSeq(string, 1, 4) \o << NonDigit >> \o SubSeq(string, 5, Len(string))

\* Arguments of the model: too short, in range and too long, passing and failing
\* the checksum, with and without a separator
CardInputs ==
  LET plain == {CardDigits(len, p, a, d) :
                  len \in 0 .. MaxCardLen, p \in {2, 3}, a \in 0 .. 9, d \in 0 .. 9}
  IN  plain \cup {WithSeparator(string) : string \in plain}

InitCard ==
  /\ RunIdle
  /\ arg \in CardInputs
  /\ locals = [fn |-> "isValidCreditCard", pc |-> "entry"]
  /\ ret = NoReturn

\* Faulty variant of LuhnDigit: a doubled digit above 9 is not folded
LuhnDigitUnfolded(digit, isEven) == IF isEven THEN digit * 2 ELSE digit

\* if (isEven) { digit *= 2; if (digit > 9) digit -= 9; }
LuhnDigit(digit, isEven) ==
  IF isEven
  THEN IF digit * 2 > 9 THEN digit * 2 - 9 ELSE digit * 2
  ELSE digit

\* cleaned, the length test, the loop's initial values
CardEntry ==
  /\ locals.fn = "isValidCreditCard" /\ locals.pc = "entry"
  /\ LET cleaned == StripNonDigits(arg)
     IN  IF Len(cleaned) < 13 \/ Len(cleaned) > 19
         THEN /\ ret' = [done |-> TRUE, value |-> FALSE]
              /\ locals' = [fn |-> "isValidCreditCard", pc |-> "returned"]
         ELSE /\ locals' = [fn |-> "isValidCreditCard", pc |-> "loop", cleaned |-> cleaned,
                            sum |-> 0, isEven |-> FALSE, i |-> Len(cleaned) - 1]
              /\ UNCHANGED ret
  /\ UNCHANGED arg
  /\ UNCHANGED << runVars, nerVars, dbVars >>

\* One iteration of `for (let i = cleaned.length - 1; i >= 0; i--)`
CardLoopStep ==
  /\ locals.fn = "isValidCreditCard" /\ locals.pc = "loop"
  /\ locals.i >= 0
  /\ locals' = [locals EXCEPT
                  !.sum = @ + LuhnDigit(locals.cleaned[locals.i + 1], locals.isEven),
                  !.isEven = ~@,
                  !.i = @ - 1]
  /\ UNCHANGED << arg, ret >>
  /\ UNCHANGED << runVars, nerVars, dbVars >>

\* return sum % 10 === 0
CardReturn ==
  /\ locals.fn = "isValidCreditCard" /\ locals.pc = "loop"
  /\ locals.i < 0
  /\ ret' = [done |-> TRUE, value |-> (locals.sum % 10 = 0)]
  /\ locals' = [fn |-> "isValidCreditCard", pc |-> "returned"]
  /\ UNCHANGED arg
  /\ UNCHANGED << runVars, nerVars, dbVars >>

NextCard == CardEntry \/ CardLoopStep \/ CardReturn

SpecCard == InitCard /\ [][NextCard]_vars

----------------------------------------------------------------------------
\* ocrProcessor.ts: isValidSSN

\* Arguments of the model: an area, a group and a serial part, of nine digits,
\* one fewer or one more, written with or without separators
SsnInputs ==
  LET areas == [1 .. 3 -> {0, 1, 6, 9}]
      groups == [1 .. 2 -> {0, 4}]
      serials == {<< 0, 0, 0, 0 >>, << 0, 0, 0, 1 >>, << 6, 7, 8, 9 >>, << 6, 7, 8 >>,
                  << 6, 7, 8, 9, 0 >>}
  IN  {area \o group \o serial : area \in areas, group \in groups, serial \in serials}
        \cup {area \o << NonDigit >> \o group \o << NonDigit >> \o serial :
                area \in areas, group \in groups, serial \in serials}

InitSsn ==
  /\ RunIdle
  /\ arg \in SsnInputs
  /\ locals = [fn |-> "isValidSSN", pc |-> "entry"]
  /\ ret = NoReturn

\* Faulty variant of InvalidArea: the area 666 is let through
InvalidAreaWithout666(area) == area = << 0, 0, 0 >> \/ Head(area) = 9

\* area === '000' || area === '666' || area.startsWith('9')
InvalidArea(area) == area = << 0, 0, 0 >> \/ area = << 6, 6, 6 >> \/ Head(area) = 9

\* cleaned, the length test, area, group and serial
SsnEntry ==
  /\ locals.fn = "isValidSSN" /\ locals.pc = "entry"
  /\ LET cleaned == StripNonDigits(arg)
     IN  IF Len(cleaned) # 9
         THEN /\ ret' = [done |-> TRUE, value |-> FALSE]
              /\ locals' = [fn |-> "isValidSSN", pc |-> "returned"]
         ELSE /\ locals' = [fn |-> "isValidSSN", pc |-> "area",
                            area |-> Substring(cleaned, 0, 3),
                            group |-> Substring(cleaned, 3, 5),
                            serial |-> Substring(cleaned, 5, 9)]
              /\ UNCHANGED ret
  /\ UNCHANGED arg
  /\ UNCHANGED << runVars, nerVars, dbVars >>

\* The test of the area
SsnAreaCheck ==
  /\ locals.fn = "isValidSSN" /\ locals.pc = "area"
  /\ IF InvalidArea(locals.area)
     THEN /\ ret' = [done |-> TRUE, value |-> FALSE]
          /\ locals' = [fn |-> "isValidSSN", pc |-> "returned"]
     ELSE /\ locals' = [locals EXCEPT !.pc = "group"]
          /\ UNCHANGED ret
  /\ UNCHANGED arg
  /\ UNCHANGED << runVars, nerVars, dbVars >>

\* The test of group and serial, return true
SsnGroupSerialCheck ==
  /\ locals.fn = "isValidSSN" /\ locals.pc = "group"
  /\ ret' = [done |-> TRUE,
             value |-> ~(locals.group = << 0, 0 >> \/ locals.serial = << 0, 0, 0, 0 >>)]
  /\ locals' = [fn |-> "isValidSSN", pc |-> "returned"]
  /\ UNCHANGED arg
  /\ UNCHANGED << runVars, nerVars, dbVars >>

NextSsn == SsnEntry \/ SsnAreaCheck \/ SsnGroupSerialCheck

SpecSsn == InitSsn /\ [][NextSsn]_vars

----------------------------------------------------------------------------
\* ocrProcessor.ts: isValidPersonName

\* A white-space separated part of the name: its first character, and the
\* number and kind of the characters after it
NameParts ==
  { [first |-> "upper", restLen |-> 1,  restLower |-> TRUE],
    [first |-> "upper", restLen |-> 14, restLower |-> TRUE],
    [first |-> "upper", restLen |-> 15, restLower |-> TRUE],
    [first |-> "upper", restLen |-> 0,  restLower |-> TRUE],
    [first |-> "upper", restLen |-> 3,  restLower |-> FALSE],
    [first |-> "lower", restLen |-> 3,  restLower |-> TRUE] }

\* Numbers of parts name.trim().split(/\s+/) yields in the model
PartCounts == 1 .. 4

\* Arguments of the model: what the pattern tests find in the context of the
\* span (documentRejectionPatterns before and after it, roleRejectionPatterns in
\* the 50 characters after it, strongAcceptancePatterns before it, the title
\* prefix in the name), the parts of the name, and whether the first part is in
\* commonFirstNames
NameInputs ==
  [docBefore : BOOLEAN, docAfter : BOOLEAN, roleAfter : BOOLEAN, strongBefore : BOOLEAN,
   titlePrefix : BOOLEAN, common : BOOLEAN,
   parts : UNION { [1 .. n -> NameParts] : n \in PartCounts }]

InitName ==
  /\ RunIdle
  /\ arg \in NameInputs
  /\ locals = [fn |-> "isValidPersonName", pc |-> "document"]
  /\ ret = NoReturn

\* part.length >= 2 && /^[A-Z][a-z]+$/.test(part) && part.length <= 15
ValidPart(part) ==
  /\ 1 + part.restLen >= 2
  /\ part.first = "upper" /\ part.restLen >= 1 /\ part.restLower
  /\ 1 + part.restLen <= 15

NameReturns(value) ==
  /\ ret' = [done |-> TRUE, value |-> value]
  /\ locals' = [fn |-> "isValidPersonName", pc |-> "returned"]

NameGoesOn(next) ==
  /\ locals' = [fn |-> "isValidPersonName", pc |-> next]
  /\ UNCHANGED ret

\* Faulty variant of NameDocumentCheck: a strong person indicator is looked at
\* before the document structure
NameDocumentCheckAfterStrong ==
  /\ locals.fn = "isValidPersonName" /\ locals.pc = "document"
  /\ IF (arg.docBefore \/ arg.docAfter) /\ ~arg.strongBefore
     THEN NameReturns(FALSE) ELSE NameGoesOn("role")
  /\ UNCHANGED arg
  /\ UNCHANGED << runVars, nerVars, dbVars >>

\* for (const pattern of documentRejectionPatterns)
NameDocumentCheck ==
  /\ locals.fn = "isValidPersonName" /\ locals.pc = "document"
  /\ IF arg.docBefore \/ arg.docAfter THEN NameReturns(FALSE) ELSE NameGoesOn("role")
  /\ UNCHANGED arg
  /\ UNCHANGED << runVars, nerVars, dbVars >>

\* for (const pattern of roleRejectionPatterns)
NameRoleCheck ==
  /\ locals.fn = "isValidPersonName" /\ locals.pc = "role"
  /\ IF arg.roleAfter THEN NameReturns(FALSE) ELSE NameGoesOn("strong")
  /\ UNCHANGED arg
  /\ UNCHANGED << runVars, nerVars, dbVars >>

\* for (const pattern of strongAcceptancePatterns)
NameStrongCheck ==
  /\ locals.fn = "isValidPersonName" /\ locals.pc = "strong"
  /\ IF arg.strongBefore THEN NameReturns(TRUE) ELSE NameGoesOn("title")
  /\ UNCHANGED arg
  /\ UNCHANGED << runVars, nerVars, dbVars >>

\* The title prefix in the name itself
NameTitleCheck ==
  /\ locals.fn = "isValidPersonName" /\ locals.pc = "title"
  /\ IF arg.titlePrefix THEN NameReturns(TRUE) ELSE NameGoesOn("count")
  /\ UNCHANGED arg
  /\ UNCHANGED << runVars, nerVars, dbVars >>

\* nameParts.length < 2 || nameParts.length > 3
NamePartCountCheck ==
  /\ locals.fn = "isValidPersonName" /\ locals.pc = "count"
  /\ IF Len(arg.parts) < 2 \/ Len(arg.parts) > 3
     THEN NameReturns(FALSE) ELSE NameGoesOn("structure")
  /\ UNCHANGED arg
  /\ UNCHANGED << runVars, nerVars, dbVars >>

\* isValidNameStructure
NameStructureCheck ==
  /\ locals.fn = "isValidPersonName" /\ locals.pc = "structure"
  /\ IF \A k \in DOMAIN arg.parts : ValidPart(arg.parts[k])
     THEN NameGoesOn("common") ELSE NameReturns(FALSE)
  /\ UNCHANGED arg
  /\ UNCHANGED << runVars, nerVars, dbVars >>

\* commonFirstNames.includes(firstName) returns true, and so does the last line
NameCommonCheck ==
  /\ locals.fn = "isValidPersonName" /\ locals.pc = "common"
  /\ IF arg.common THEN NameReturns(TRUE) ELSE NameReturns(TRUE)
  /\ UNCHANGED arg
  /\ UNCHANGED << runVars, nerVars, dbVars >>

NextName ==
  \/ NameDocumentCheck
  \/ NameRoleCheck
  \/ NameStrongCheck
  \/ NameTitleCheck
  \/ NamePartCountCheck
  \/ NameStructureCheck
  \/ NameCommonCheck

SpecName == InitName /\ [][NextName]_vars

----------------------------------------------------------------------------
\* ner.ts: getPersonEntities on any model output

\* Longest model output
MaxOutput == 3

\* Entries a token-classification output can hold: persons and others, scores
\* inside and outside [0, 1], spans that can repeat; word names the entry's text
OutputEntries ==
  { [entity_group |-> g, score |-> sc, word |-> << sp[1], sp[2], w >>,
     start |-> sp[1], end |-> sp[2]] :
      g \in {"PER", "ORG"}, sc \in {85, 120}, w \in {1, 2},
      sp \in {<< 0, 1 >>, << 0, 2 >>} }

\* Arguments of the model: a blank or a non-blank text, and the output the
\* pipeline gives for it
PersonInputs ==
  [blank : BOOLEAN, output : UNION { [1 .. n -> OutputEntries] : n \in 0 .. MaxOutput }]

InitPersons ==
  /\ RunIdle
  /\ arg \in PersonInputs
  /\ locals = [fn |-> "getPersonEntities", pc |-> "entry"]
  /\ ret = NoReturn

\* if (!text || !text.trim()) return []
GetPersonsGuard ==
  /\ locals.fn = "getPersonEntities" /\ locals.pc = "entry"
  /\ IF arg.blank
     THEN /\ ret' = [done |-> TRUE, value |-> << >>]
          /\ locals' = [fn |-> "getPersonEntities", pc |-> "returned"]
     ELSE /\ locals' = [fn |-> "getPersonEntities", pc |-> "inference"]
          /\ UNCHANGED ret
  /\ UNCHANGED arg
  /\ UNCHANGED << runVars, nerVars, dbVars >>

\* The pipeline's output is collected, de-duplicated and returned
GetPersonsReturn ==
  /\ locals.fn = "getPersonEntities" /\ locals.pc = "inference"
  /\ ret' = [done |-> TRUE, value |-> getPersonEntities(arg.output)]
  /\ locals' = [fn |-> "getPersonEntities", pc |-> "returned"]
  /\ UNCHANGED arg
  /\ UNCHANGED << runVars, nerVars, dbVars >>

NextPersons == GetPersonsGuard \/ GetPersonsReturn

SpecPersons == InitPersons /\ [][NextPersons]_vars

----------------------------------------------------------------------------
\* process-pii: applyContextualMasking for PERSON and FULL_NAME

\* Characters of a name: the letters 1 and 2, the space, and the block the
\* masking writes
Space == 0
Block == 0 - 2

\* The name tokens the PERSON and FULL_NAME patterns match hold three letters or
\* more; the model takes tokens of three and four
NameTokens == UNION { [1 .. n -> {1, 2}] : n \in {3, 4} }

\* Entity texts of the model: two or three tokens, with one space between them
\* or, as \s+ of the patterns allows, two
MaskInputs ==
  LET gaps == {<< Space >>, << Space, Space >>}
  IN  {a \o g \o b : a \in NameTokens, g \in gaps, b \in NameTokens}
        \cup {a \o << Space >> \o b \o << Space >> \o c :
                a \in NameTokens, b \in {<< 1, 2, 1 >>, << 2, 2, 1, 1 >>}, c \in NameTokens}

InitMask ==
  /\ RunIdle
  /\ arg \in MaskInputs
  /\ locals = [fn |-> "applyContextualMasking", pc |-> "split"]
  /\ ret = NoReturn

\* text.split(' '): the pieces between the spaces, empty ones included
RECURSIVE SplitOnSpace(_, _)
SplitOnSpace(string, piece) ==
  IF string = << >> THEN << piece >>
  ELSE IF Head(string) = Space
       THEN << piece >> \o SplitOnSpace(Tail(string), << >>)
       ELSE SplitOnSpace(Tail(string), Append(piece, Head(string)))

\* name[0] + '\u2588'.repeat(name.length - 1), for a name that is not empty
MaskedName(name) == << Head(name) >> \o [k \in 1 .. Len(name) - 1 |-> Block]

\* const names = text.split(' ')
MaskSplit ==
  /\ locals.fn = "applyContextualMasking" /\ locals.pc = "split"
  /\ locals' = [fn |-> "applyContextualMasking", pc |-> "map",
                names |-> SplitOnSpace(arg, << >>), masked |-> << >>]
  /\ UNCHANGED << arg, ret >>
  /\ UNCHANGED << runVars, nerVars, dbVars >>

\* One name of the two written out for names.length === 2, or of names.map(...):
\* for an empty name '\u2588'.repeat(-1) throws a RangeError
MaskNameStep ==
  /\ locals.fn = "applyContextualMasking" /\ locals.pc = "map"
  /\ Len(locals.masked) < Len(locals.names)
  /\ LET name == locals.names[Len(locals.masked) + 1]
     IN  IF name = << >>
         THEN /\ ret' = [done |-> TRUE, threw |-> TRUE]
              /\ locals' = [fn |-> "applyContextualMasking", pc |-> "returned"]
         ELSE /\ locals' = [locals EXCEPT !.masked = Append(@, MaskedName(name))]
              /\ UNCHANGED ret
  /\ UNCHANGED arg
  /\ UNCHANGED << runVars, nerVars, dbVars >>

\* The masked names joined by ' '
RECURSIVE JoinWithSpace(_)
JoinWithSpace(pieces) ==
  IF Len(pieces) = 1 THEN Head(pieces)
  ELSE Head(pieces) \o << Space >> \o JoinWithSpace(Tail(pieces))

MaskReturn ==
  /\ locals.fn = "applyContextualMasking" /\ locals.pc = "map"
  /\ Len(locals.masked) = Len(locals.names)
  /\ ret' = [done |-> TRUE, threw |-> FALSE, value |-> JoinWithSpace(locals.masked)]
  /\ locals' = [fn |-> "applyContextualMasking", pc |-> "returned"]
  /\ UNCHANGED arg
  /\ UNCHANGED << runVars, nerVars, dbVars >>

NextMask == MaskSplit \/ MaskNameStep \/ MaskReturn

SpecMask == InitMask /\ [][NextMask]_vars

----------------------------------------------------------------------------
\* The Dashboard with its results view: a text is submitted, and once
\* processingResult is set EnhancedPIIResults is rendered with the method cards

InitResults == Init /\ side = "client"

\* onClick of a method card: onMethodChange(method.id), which is setSelectedMethod
OnMethodChange ==
  /\ side = "client" /\ processingResult.kind = "result"
  /\ \E m \in EnhancedMethodIds : method' = m
  /\ UNCHANGED << side, textLen, ws, constAssign, pc, cursor, budget, entities,
                  candidates, entityId, sortedEntities, idx, redactedText, replacements,
                  entityCounts, processingResult, toast, isProcessing, response >>
  /\ UNCHANGED nerVars
  /\ UNCHANGED << fnVars, dbVars >>

NextResults ==
  \/ HandleTextSubmit
  \/ DetectEnhancedMatch
  \/ GetPersonEntitiesRejects
  \/ GetPersonEntitiesResolves
  \/ ClientSpliceStep
  \/ ClientFinish
  \/ OnMethodChange

SpecResults == InitResults /\ [][NextResults]_vars

----------------------------------------------------------------------------
\* detectPII from line 315 on, run on its own: the overlap resolution applied to
\* the list of candidates the match loop has pushed

\* Candidates in one list, and the offsets their spans lie between
MaxCand == 3
MaxPos == 3

\* The registry entries the candidates of these runs come from
ResolveConfigs ==
  {p \in DOMAIN PII_PATTERNS :
     PII_PATTERNS[p].type \in {"PERSON", "PHONE_NUMBER", "PASSPORT_NUMBER", "POSTAL_CODE"}}

\* A pushed candidate: a non-empty span with its pattern's type and confidence
ResolveCandidates ==
  { [type |-> PII_PATTERNS[p].type, start |-> sp[1], end |-> sp[2],
     confidence |-> PII_PATTERNS[p].confidence] :
      p \in ResolveConfigs,
      sp \in {x \in (0 .. MaxPos - 1) \X (1 .. MaxPos) : x[1] < x[2]} }

\* Place of a type in the registry
PatternIndex(type) == CHOOSE p \in DOMAIN PII_PATTERNS : PII_PATTERNS[p].type = type

\* `entities` after the match loop, in the order the loop pushed them: pattern
\* after pattern in registry order, and the matches of one pattern as a global
\* regex yields them, left to right and disjoint
RECURSIVE PushedLists(_)
PushedLists(k) ==
  IF k = 0 THEN {<< >>}
  ELSE PushedLists(k - 1) \cup
       UNION { { Append(list, c) :
                   c \in { d \in ResolveCandidates :
                             \/ list = << >>
                             \/ PatternIndex(list[Len(list)].type) < PatternIndex(d.type)
                             \/ /\ list[Len(list)].type = d.type
                                /\ list[Len(list)].end <= d.start } } :
               list \in {l \in PushedLists(k - 1) : Len(l) = k - 1} }

ResolveInputs == PushedLists(MaxCand)

InitResolve ==
  /\ RunIdle
  /\ arg \in ResolveInputs
  /\ locals = [fn |-> "detectPII", pc |-> "sort"]
  /\ ret = NoReturn

\* const filteredEntities = []; const sortedEntities = entities.sort(...)
ResolveSort ==
  /\ locals.fn = "detectPII" /\ locals.pc = "sort"
  /\ locals' = [fn |-> "detectPII", pc |-> "loop", i |-> 1,
                sortedEntities |-> SortAscending(arg), filteredEntities |-> << >>]
  /\ UNCHANGED << arg, ret >>
  /\ UNCHANGED << runVars, nerVars, dbVars >>

\* One iteration of `for (const entity of sortedEntities)`
ResolveIteration ==
  /\ locals.fn = "detectPII" /\ locals.pc = "loop"
  /\ locals.i <= Len(locals.sortedEntities)
  /\ locals' = [locals EXCEPT
                  !.filteredEntities = ResolveStep(@, locals.sortedEntities[locals.i]),
                  !.i = @ + 1]
  /\ UNCHANGED << arg, ret >>
  /\ UNCHANGED << runVars, nerVars, dbVars >>

\* return filteredEntities.sort((a, b) => a.start - b.start)
ResolveReturn ==
  /\ locals.fn = "detectPII" /\ locals.pc = "loop"
  /\ locals.i > Len(locals.sortedEntities)
  /\ ret' = [done |-> TRUE, value |-> SortAscending(locals.filteredEntities)]
  /\ locals' = [locals EXCEPT !.pc = "returned"]
  /\ UNCHANGED arg
  /\ UNCHANGED << runVars, nerVars, dbVars >>

NextResolve == ResolveSort \/ ResolveIteration \/ ResolveReturn

SpecResolve == InitResolve /\ [][NextResolve]_vars

----------------------------------------------------------------------------
\* The edge functions process-pii and export-results on the table
\* processing_results, for requests that carry a documentId

\* Rows the table holds at most in a run
MaxRows == 3

\* Documents of the table public.documents the requests name
Documents == {"doc-a", "doc-b"}

\* from('processing_results').upsert(payload) without onConflict: the conflict
\* target is the primary key id, which is the only unique column of the table.
\* A payload with the id of a row replaces that row; any other payload becomes a
\* new row whose id the column default draws afresh
Upsert(table, payload) ==
  IF "id" \in DOMAIN payload /\ \E r \in DOMAIN table : table[r].id = payload.id
  THEN [r \in DOMAIN table |-> IF table[r].id = payload.id THEN payload ELSE table[r]]
  ELSE Append(table, [id |-> Len(table) + 1,
                      document_id |-> payload.document_id,
                      redaction_method |-> payload.redaction_method])

\* The rows .eq('document_id', documentId) selects
RowsOf(table, documentId) == {r \in DOMAIN table : table[r].document_id = documentId}

InitStore ==
  /\ RunIdle
  /\ arg = << >>
  /\ locals = [fn |-> "Deno.serve"]
  /\ ret = NoReturn

\* process-pii: 400 without text; with text detection and redaction, then for a
\* documentId the upsert of the result row, then the 200 response
ProcessPiiStored ==
  /\ locals.fn = "Deno.serve"
  /\ Len(processing_results) < MaxRows
  /\ \E hasText \in BOOLEAN, documentId \in Documents, redactionMethod \in RequestMethods :
       /\ arg' = [endpoint |-> "process-pii", hasText |-> hasText,
                  documentId |-> documentId, redactionMethod |-> redactionMethod]
       /\ IF hasText
          THEN /\ processing_results' =
                    Upsert(processing_results,
                           [document_id |-> documentId, redaction_method |-> redactionMethod])
               /\ ret' = [done |-> TRUE, value |-> [status |-> 200]]
          ELSE /\ UNCHANGED processing_results
               /\ ret' = [done |-> TRUE, value |-> [status |-> 400]]
  /\ UNCHANGED locals
  /\ UNCHANGED << runVars, nerVars >>

\* export-results with documentId, format and userId: .single() yields the row
\* when the selection holds exactly one and an error otherwise, answered by 404
ExportResults ==
  /\ locals.fn = "Deno.serve"
  /\ \E documentId \in Documents :
       /\ arg' = [endpoint |-> "export-results", documentId |-> documentId]
       /\ ret' = [done |-> TRUE,
                  value |-> [status |->
                    IF Cardinality(RowsOf(processing_results, documentId)) = 1
                    THEN 200 ELSE 404]]
  /\ UNCHANGED << locals, processing_results >>
  /\ UNCHANGED << runVars, nerVars >>

NextStore == ProcessPiiStored \/ ExportResults

SpecStore == InitStore /\ [][NextStore]_vars

----------------------------------------------------------------------------
\* Properties

\* a.start < b.end && b.start < a.end
HalfOpenOverlap(a, b) == a.start < b.end /\ b.start < a.end

NoTwoOverlap(list) ==
  \A i \in DOMAIN list, j \in DOMAIN list : i # j => ~HalfOpenOverlap(list[i], list[j])

\* detectPII has returned its list to the handler
ServerReturned == side = "server" /\ (pc = "splice" \/ (pc = "done" /\ response.status = 200))

\* handleTextSubmit has built its merged list
ClientMerged == side = "client" /\ (pc = "splice" \/ processingResult.kind = "result")

\* C1: the entity list the server's detectPII returns holds no two entities whose
\* half-open ranges overlap.
C1_ServerListNonOverlapping == ServerReturned => NoTwoOverlap(entities)

\* C1 witness: the resolver ran on candidates of which two overlapped
C1_Witness ==
  /\ ServerReturned
  /\ Len(entities) >= 1
  /\ \E i \in DOMAIN candidates, j \in DOMAIN candidates :
       i # j /\ HalfOpenOverlap(candidates[i], candidates[j])

\* C2 (as claimed): the list handleTextSubmit merges from detectEnhancedPII's
\* entities and the recognizer's NAME entities, and redacts with, holds no two
\* entities with overlapping ranges.
C2_ClientMergedNonOverlapping == ClientMerged => NoTwoOverlap(entities)

\* Offsets of the text that no entity of the list covers, in order
Uncovered(list) ==
  LET Free(c) == \A i \in DOMAIN list : ~(list[i].start <= c /\ c < list[i].end)
  IN  SelectSeq(OriginalText, Free)

\* The characters the k-th splice iteration wrote that are left in the string
WrittenBy(string, k) ==
  LET Mine(c) == c >= k * 100 /\ c < (k + 1) * 100
  IN  SelectSeq(string, Mine)

\* C3 (as claimed): in handleTextSubmit's result, every character of the text
\* that no entity span covers is in redactedText, in its original order, and
\* redactedText holds nothing else but the replacement strings.
C3_UncoveredTextVerbatim ==
  processingResult.kind = "result" =>
    /\ SelectSeq(processingResult.redactedText, IsOriginalChar) = Uncovered(entities)
    /\ \A k \in DOMAIN replacements :
         WrittenBy(processingResult.redactedText, k)
           = ReplacementChars(k, replacements[k].len)

\* The text the claim describes, from offset `from` on, for the iterations in
\* pending: up to the next span the original text, then the span's replacement
RECURSIVE ExpectedText(_, _)
ExpectedText(from, pending) ==
  IF pending = {} THEN TextSlice(from, textLen)
  ELSE LET k == CHOOSE x \in pending :
                  \A y \in pending : sortedEntities[x].start <= sortedEntities[y].start
       IN  TextSlice(from, sortedEntities[k].start)
             \o ReplacementChars(k, replacements[k].len)
             \o ExpectedText(sortedEntities[k].end, pending \ {k})

\* C4: for an entity list without overlaps the descending-start splice loop (of
\* handleTextSubmit and of applyRedaction) ends with the text before the first
\* span, then per span in ascending order its replacement and the original text
\* up to the next span; before each iteration the working text up to the end of
\* the entity at hand is still the original prefix.
C4_SpliceLoopCorrect ==
  (pc = "splice" /\ NoTwoOverlap(sortedEntities)) =>
    /\ idx < Len(sortedEntities) =>
         Substring(redactedText, 0, sortedEntities[idx + 1].end)
           = TextSlice(0, sortedEntities[idx + 1].end)
    /\ idx = Len(sortedEntities) =>
         redactedText = ExpectedText(0, DOMAIN sortedEntities)

\* C4 witness: the loop has rewritten two spans, the later one with a replacement
\* of another length than the span
C4_Witness ==
  /\ pc = "splice"
  /\ idx = 2 /\ Len(sortedEntities) = 2
  /\ NoTwoOverlap(sortedEntities)
  /\ replacements[1].len # sortedEntities[1].end - sortedEntities[1].start

\* The strategy name is none of the case labels of the switch that reads it
UnsupportedMethod ==
  IF side = "client" THEN method \notin ClientCaseLabels ELSE method \notin ServerCaseLabels

\* C5 (as claimed): with a strategy name that is not a supported one, redaction
\* fails with an error, applies no replacement and produces no redacted text.
C5_UnknownStrategyFails ==
  (UnsupportedMethod /\ Len(sortedEntities) > 0) =>
    /\ replacements = << >>
    /\ processingResult.kind # "result"
    /\ response.status # 200

\* C5 (amended): with a strategy name that is none of the case labels, redaction
\* raises no error: handleTextSubmit replaces every entity by its Smart
\* Placeholder ([TYPE], [NAME_i]), applyRedaction replaces every entity by
\* '[REDACTED]', and the run ends with its result.
C5_UnknownStrategyDefaults ==
  UnsupportedMethod =>
    /\ \A k \in DOMAIN replacements :
         IF side = "client"
         THEN /\ replacements[k].kind = "placeholder"
              /\ replacements[k].len =
                   (IF sortedEntities[k].type = "NAME"
                    THEN 7 + Digits(replacements[k].num)
                    ELSE TypeNameLength(sortedEntities[k].type) + 2)
         ELSE replacements[k].kind = "redacted" /\ replacements[k].len = 10
    /\ (pc = "done" /\ Len(sortedEntities) > 0) =>
         IF side = "client"
         THEN processingResult.kind = "result" /\ toast = "Processing Complete"
         ELSE response.status = 200

\* C5 witness: a run with an unsupported strategy name has replaced an entity and
\* ended
C5_Witness ==
  /\ UnsupportedMethod
  /\ pc = "done"
  /\ Len(replacements) >= 1

\* C6 (as claimed): when getPersonEntities rejects during handleTextSubmit, the
\* run still ends with a ProcessingResult built from the pattern-based entities,
\* and no processing failure is reported.
C6_RecognizerFailureDegrades ==
  (side = "client" /\ pc = "done" /\ ~TrimIsEmpty) =>
    /\ processingResult.kind = "result"
    /\ toast # "Processing Failed"

\* C7 (as claimed): concurrent getPersonEntities calls that start before the
\* model has loaded start pipeline(...) once, and all of them await that one load.
C7_PipelineStartedOnce ==
  \A c \in 1 .. NCallers, d \in 1 .. NCallers :
    (callerPc[c] = "loading" /\ callerPc[d] = "loading") => callerNer[c] = callerNer[d]

\* C8 (as claimed): given the empty text, handleTextSubmit and the process-pii
\* handler return a result with zero entities and a redacted text identical to
\* the input, and report no error.
C8_EmptyInputYieldsEmptyResult ==
  (textLen = 0 /\ pc = "done") =>
    IF side = "client"
    THEN /\ processingResult.kind = "result"
         /\ processingResult.entities = << >>
         /\ processingResult.redactedText = OriginalText
    ELSE /\ response.status = 200
         /\ response.entities = << >>
         /\ response.redactedText = OriginalText

\* C8 (amended): given the empty text, neither entry point runs detection:
\* handleTextSubmit sets no result and shows the notification 'No Text Provided',
\* the process-pii handler answers status 400 with the error 'Text is required'.
C8_EmptyInputRejected ==
  (textLen = 0 /\ pc # "idle") =>
    /\ pc = "done"
    /\ entities = << >>
    /\ IF side = "client"
       THEN processingResult = NoResult /\ toast = "No Text Provided"
       ELSE response = [status |-> 400, error |-> "Text is required"]

\* C8 witness: an entry point has answered the empty text
C8_Witness == textLen = 0 /\ pc = "done"

\* C9 (as claimed): for every entity e that detection produces (detectEnhancedPII,
\* the server's detectPII, the recognizer entities merged in handleTextSubmit),
\* originalText.slice(e.start, e.end) equals e.text.
C9_SpanFidelity ==
  \A k \in DOMAIN entities :
    entities[k].text = TextSlice(entities[k].start, entities[k].end)

\* C10 (as claimed): in applyRedaction with 'Smart Placeholders' the entity with
\* the k-th smallest start among the entities of its type gets the number k.
C10_ServerNumbersAscending ==
  (side = "server" /\ method = "Smart Placeholders") =>
    \A k \in DOMAIN replacements :
      replacements[k].num =
        Cardinality({j \in DOMAIN sortedEntities :
                       /\ sortedEntities[j].type = sortedEntities[k].type
                       /\ sortedEntities[j].start <= sortedEntities[k].start})

\* The 1-based place of sortedEntities[k] among the entities of its type, by
\* ascending start
RankInType(k) ==
  Cardinality({j \in DOMAIN sortedEntities :
                 /\ sortedEntities[j].type = sortedEntities[k].type
                 /\ sortedEntities[j].start <= sortedEntities[k].start})

\* The detected entities are emails and one name, on disjoint spans
EmailsAndOneName ==
  /\ NoTwoOverlap(entities)
  /\ \A k \in DOMAIN entities : entities[k].type \in {"EMAIL", "NAME"}
  /\ Len(FilterType(entities, "NAME")) = 1
  /\ Len(FilterType(entities, "EMAIL")) >= 1

SameSpan(i) == {j \in DOMAIN candidates : spanKey(candidates[j]) = spanKey(candidates[i])}

\* Of the candidates on the span of candidates[i], the one with the highest
\* confidence, the earliest of them when several have it
BestOfSpan(i) ==
  candidates[CHOOSE b \in SameSpan(i) :
               \A j \in SameSpan(i) :
                 \/ candidates[b].confidence > candidates[j].confidence
                 \/ candidates[b].confidence = candidates[j].confidence /\ b <= j]

\* C12 (as claimed): of the candidates that cover exactly the same (start, end)
\* the merged list of handleTextSubmit keeps exactly one, the one with the
\* higher confidence, the earlier-inserted one when the confidences are equal.
C12_SameSpanKeepsHigherConfidence ==
  ClientMerged =>
    \A i \in DOMAIN candidates :
      LET kept == {k \in DOMAIN entities : spanKey(entities[k]) = spanKey(candidates[i])}
      IN  /\ Cardinality(kept) = 1
          /\ \A k \in kept : entities[k] = BestOfSpan(i)

\* The candidates the resolver did not return
LostCandidates ==
  {i \in DOMAIN candidates : \A k \in DOMAIN entities : entities[k] # candidates[i]}

\* C13: every candidate of the server's overlap resolution is in the returned
\* list, or lost a confidence comparison with a candidate whose span overlaps its
\* own (it was discarded against one at least as confident, or replaced by a more
\* confident one); none disappears otherwise.
C13_ResolverTotal ==
  ServerReturned =>
    \A i \in LostCandidates :
      \E j \in DOMAIN candidates :
        /\ j # i
        /\ HalfOpenOverlap(candidates[i], candidates[j])
        /\ candidates[j].confidence >= candidates[i].confidence

\* C13 witness: the resolver returned a list that lacks one of its candidates
C13_Witness == ServerReturned /\ LostCandidates # {} /\ Len(entities) >= 1

\* C14 (as claimed): every entity detection emits has category 'high' when its
\* confidence is >= 0.9, 'medium' when it is >= 0.8 and < 0.9, and 'low'
\* otherwise (detectEnhancedPII, the recognizer entities of handleTextSubmit, the
\* server's detectPII with its common-name boost).
C14_CategoryByThreshold ==
  \A k \in DOMAIN entities : entities[k].category = Category(entities[k].confidence)

\* The fraction is the mean of the list's confidences, 1.0 (100 percent) for the
\* empty list
IsMeanOrOne(fraction, list) ==
  IF Len(list) = 0 THEN fraction.num = 100 * fraction.den
  ELSE fraction.num * Len(list) = SumConfidence(list) * fraction.den

\* C15 (as claimed): the aggregate confidence of a processing result is the mean
\* of its entities' confidences, and 1.0 when it has no entity, in the
\* ProcessingResult of handleTextSubmit and in the process-pii response.
C15_AggregateConfidenceIsMean ==
  /\ processingResult.kind = "result" =>
       IsMeanOrOne(processingResult.confidence, processingResult.entities)
  /\ response.status = 200 => IsMeanOrOne(response.confidence, response.entities)

\* The Luhn sum as the claim words it: of the digits counted from the rightmost
\* one, every second is doubled and 9 is taken off a doubled value above 9
RECURSIVE LuhnSumByPlace(_, _)
LuhnSumByPlace(digits, k) ==
  IF k > Len(digits) THEN 0
  ELSE LET fromRight == Len(digits) - k + 1
           doubled == digits[k] * 2
           term == IF fromRight % 2 = 1 THEN digits[k]
                   ELSE IF doubled > 9 THEN doubled - 9 ELSE doubled
       IN  term + LuhnSumByPlace(digits, k + 1)

Card4111 == [k \in 1 .. 16 |-> IF k = 1 THEN 4 ELSE 1]
Card4112 == [k \in 1 .. 16 |-> IF k = 1 THEN 4 ELSE IF k = 16 THEN 2 ELSE 1]

\* C16: isValidCreditCard(s) returns true exactly when s, stripped of its
\* non-digits, has 13 to 19 digits and a Luhn sum divisible by 10, and false
\* otherwise; 4111111111111111 is accepted and 4111111111111112 is rejected.
C16_CreditCardLuhn ==
  (locals.fn = "isValidCreditCard" /\ ret.done) =>
    LET digits == StripNonDigits(arg)
    IN  /\ ret.value = (/\ Len(digits) >= 13
                         /\ Len(digits) <= 19
                         /\ LuhnSumByPlace(digits, 1) % 10 = 0)
        /\ arg = Card4111 => ret.value
        /\ arg = Card4112 => ~ret.value

\* C16 witness: a 16-digit number written with a separator was accepted after
\* the loop had doubled a digit above 4
C16_Witness ==
  /\ locals.fn = "isValidCreditCard" /\ ret.done /\ ret.value
  /\ Len(arg) = 17 /\ Len(StripNonDigits(arg)) = 16
  /\ \E k \in 1 .. 16 : StripNonDigits(arg)[k] > 4 /\ (16 - k) % 2 = 1

\* C17: isValidSSN(s) returns true exactly when s, stripped of its non-digits,
\* has nine digits, its first three are neither 000 nor 666 and do not begin with
\* 9, its fourth and fifth are not 00 and its last four are not 0000; it returns
\* false otherwise.
C17_SsnRules ==
  (locals.fn = "isValidSSN" /\ ret.done) =>
    LET d == StripNonDigits(arg)
    IN  ret.value =
          (/\ Len(d) = 9
           /\ ~(d[1] = 0 /\ d[2] = 0 /\ d[3] = 0)
           /\ ~(d[1] = 6 /\ d[2] = 6 /\ d[3] = 6)
           /\ d[1] # 9
           /\ ~(d[4] = 0 /\ d[5] = 0)
           /\ ~(d[6] = 0 /\ d[7] = 0 /\ d[8] = 0 /\ d[9] = 0))

\* C17 witness: a number written with separators whose area is 666 was rejected
C17_Witness ==
  /\ locals.fn = "isValidSSN" /\ ret.done /\ ~ret.value
  /\ Len(arg) = 11
  /\ SubSeq(arg, 1, 3) = << 6, 6, 6 >>
  /\ SubSeq(arg, 5, 6) = << 4, 4 >>
  /\ SubSeq(arg, 8, 11) = << 6, 7, 8, 9 >>

\* The part is one capital letter followed by 1 to 14 lowercase letters
CapitalThenLowercase(part) ==
  part.first = "upper" /\ part.restLower /\ part.restLen \in 1 .. 14

\* C18: isValidPersonName decides by the first rule that matches: false when a
\* document-structure marker matches before or after the span or a role or
\* id/number word follows within 50 characters, whatever else is present;
\* otherwise true when a strong person indicator precedes the span or the span
\* starts with an honorific; otherwise true exactly when the span has 2 or 3
\* parts, each a capital letter followed by 1 to 14 lowercase letters.  The
\* common-first-name list does not enter the result.
C18_PersonNameRuleOrder ==
  (locals.fn = "isValidPersonName" /\ ret.done) =>
    ret.value =
      (IF arg.docBefore \/ arg.docAfter \/ arg.roleAfter THEN FALSE
       ELSE IF arg.strongBefore \/ arg.titlePrefix THEN TRUE
       ELSE /\ Len(arg.parts) \in {2, 3}
            /\ \A k \in DOMAIN arg.parts : CapitalThenLowercase(arg.parts[k]))

\* C18 witness: a span with a strong person indicator before it and a
\* document-structure marker after it was rejected
C18_Witness ==
  /\ locals.fn = "isValidPersonName" /\ ret.done /\ ~ret.value
  /\ arg.strongBefore /\ arg.docAfter /\ ~arg.docBefore /\ ~arg.roleAfter

\* The places of the model output that hold a person entry on the span
PersonPlaces(span) ==
  {k \in DOMAIN arg.output :
     /\ arg.output[k].entity_group = "PER"
     /\ << arg.output[k].start, arg.output[k].end >> = span}

\* C19: the list getPersonEntities returns holds no two entries with the same
\* (start, end), and of several person entries of the model output on one span
\* it holds the first in model-output order.
C19_PersonsFirstOfSpan ==
  (locals.fn = "getPersonEntities" /\ ret.done /\ ~arg.blank) =>
    /\ \A i \in DOMAIN ret.value, j \in DOMAIN ret.value :
         (ret.value[i].start = ret.value[j].start /\ ret.value[i].end = ret.value[j].end)
           => i = j
    /\ \A k \in DOMAIN arg.output :
         arg.output[k].entity_group = "PER" =>
           LET places == PersonPlaces(<< arg.output[k].start, arg.output[k].end >>)
               first == CHOOSE f \in places : \A g \in places : f <= g
           IN  \E i \in DOMAIN ret.value :
                 /\ ret.value[i].start = arg.output[k].start
                 /\ ret.value[i].end = arg.output[k].end
                 /\ ret.value[i].text = arg.output[first].word

\* C19 witness: the output held two different person entries on one span and
\* one entry was returned
C19_Witness ==
  /\ locals.fn = "getPersonEntities" /\ ret.done
  /\ Len(ret.value) = 1
  /\ \E k \in DOMAIN arg.output, m \in DOMAIN arg.output :
       /\ k < m
       /\ arg.output[k].entity_group = "PER" /\ arg.output[m].entity_group = "PER"
       /\ arg.output[k].start = arg.output[m].start
       /\ arg.output[k].end = arg.output[m].end
       /\ arg.output[k].word # arg.output[m].word

\* Place k of the name is the first or the last character of its token
TokenEdge(k) ==
  \/ k = 1 \/ arg[k - 1] = Space
  \/ k = Len(arg) \/ arg[k + 1] = Space

\* C20 (as claimed): under 'Contextual Masking' the replacement of a PERSON or
\* FULL_NAME entity keeps the first and the last character of each name token,
\* masks every character between them, and is as long as the entity text.
C20_NameMaskKeepsEnds ==
  (locals.fn = "applyContextualMasking" /\ ret.done) =>
    /\ ~ret.threw
    /\ Len(ret.value) = Len(arg)
    /\ \A k \in DOMAIN arg :
         ret.value[k] = (IF arg[k] = Space \/ TokenEdge(k) THEN arg[k] ELSE Block)

\* C21 (as claimed): once a loadPipeline call has completed successfully, no
\* later getPersonEntities call starts another model load, and every later call
\* uses the same pipeline instance: the cached instance never changes again.
C21_LoadedPipelineKept ==
  [][nerPipeline # 0 => (loadsStarted' = loadsStarted /\ nerPipeline' = nerPipeline)]_vars

\* C22: in the overlap-resolution loop of detectPII, when the candidate of an
\* iteration overlaps an accepted entity, the list after the iteration holds the
\* candidate in place of that entity if the candidate's confidence is strictly
\* higher and is unchanged otherwise; on equal confidences the accepted one stays.
C22_ReplaceOnlyIfStrictlyHigher ==
  [][(/\ locals.fn = "detectPII" /\ locals.pc = "loop"
      /\ locals'.pc = "loop" /\ locals'.i = locals.i + 1)
     => LET entity == locals.sortedEntities[locals.i]
            before == locals.filteredEntities
            after == locals'.filteredEntities
        IN  \A j \in DOMAIN before :
              HalfOpenOverlap(entity, before[j])
              => after = IF entity.confidence > before[j].confidence
                         THEN [before EXCEPT ![j] = entity]
                         ELSE before]_vars

\* C22 witness: the second candidate has overlapped the first one accepted with a
\* higher confidence and now stands in its place
C22_Witness ==
  /\ locals.fn = "detectPII" /\ locals.pc = "loop" /\ locals.i = 3
  /\ HalfOpenOverlap(locals.sortedEntities[2], locals.sortedEntities[1])
  /\ locals.sortedEntities[2].confidence > locals.sortedEntities[1].confidence
  /\ locals.filteredEntities = << locals.sortedEntities[2] >>

\* C23: for all spans with start < end, the three-clause test of the resolver
\* holds exactly when a.start < b.end and b.start < a.end.
C23_ResolverTestIsHalfOpenOverlap ==
  locals.fn = "detectPII"
  => \A m, n \in DOMAIN arg :
       (arg[m].start < arg[m].end /\ arg[n].start < arg[n].end)
       => (ResolverOverlap(arg[m], arg[n]) <=> HalfOpenOverlap(arg[m], arg[n]))

\* C23 witness: a pair in which the first span strictly covers the second (of
\* the three clauses only the third holds), and the loop has kept one of the two
C23_Witness ==
  /\ locals.fn = "detectPII" /\ locals.pc = "returned"
  /\ Len(arg) = 2
  /\ arg[1].start < arg[2].start /\ arg[2].end < arg[1].end
  /\ ResolverOverlap(arg[1], arg[2])
  /\ Len(ret.value) = 1

\* The places of the NAME entities in the splice order
NamePlaces == {k \in DOMAIN replacements : sortedEntities[k].type = "NAME"}

\* C24: in handleTextSubmit with 'Smart Placeholders', the NAME entity with the
\* i-th smallest start among the merged NAME entities gets the replacement
\* [NAME_i], i counted from 1; the index comes from the merged list as it was
\* before the first splice, the fallback index 1 is never used for a NAME entity
\* of the merged list, and no two NAME entities of one run get the same number.
C24_NameIndexByStart ==
  (side = "client" /\ method = "Smart Placeholders") =>
    /\ \A k \in NamePlaces :
         LET e == sortedEntities[k]
             names == FilterType(entities, "NAME")
             smaller == {j \in DOMAIN names : names[j].start < e.start}
             upTo == {j \in DOMAIN names : names[j].start <= e.start}
         IN  /\ replacements[k].kind = "placeholder"
             /\ replacements[k].type = "NAME"
             /\ replacements[k].num >= Cardinality(smaller) + 1
             /\ replacements[k].num <= Cardinality(upTo)
             /\ nameIndexMapGet(entities, spanKey(e)) = replacements[k].num
    /\ \A k, l \in NamePlaces : k # l => replacements[k].num # replacements[l].num

\* C24 witness: a finished run in which two NAME entities were merged, the
\* pattern's one standing after the recognizer's, and got [NAME_2] and [NAME_1]
C24_Witness ==
  /\ side = "client" /\ method = "Smart Placeholders" /\ pc = "done"
  /\ Len(entities) = 2 /\ NamePlaces = {1, 2}
  /\ entities[1].start > entities[2].start
  /\ replacements[1].num = 2 /\ replacements[2].num = 1

\* The candidates the resolver was given that are absent from its result
ResolverDropped == {k \in DOMAIN arg : \A j \in DOMAIN ret.value : ret.value[j] # arg[k]}

\* C25 (as claimed): every candidate absent from the list returned by the server's
\* detectPII overlaps at least one entity present in it.
C25_DroppedOverlapsReturned ==
  (locals.fn = "detectPII" /\ ret.done) =>
    \A k \in ResolverDropped :
      \E j \in DOMAIN ret.value : HalfOpenOverlap(arg[k], ret.value[j])

\* C26 (as claimed): after handleTextSubmit with 'Smart Placeholders', no
\* character that comes from an offset inside the span of an entity of the merged
\* list is left in redactedText, whatever list the detection step has produced.
C26_NoEntityCharacterLeft ==
  (processingResult.kind = "result" /\ method = "Smart Placeholders") =>
    \A p \in DOMAIN processingResult.redactedText :
      LET c == processingResult.redactedText[p]
      IN  IsOriginalChar(c) =>
            \A k \in DOMAIN entities : ~(entities[k].start <= c /\ c < entities[k].end)

\* C27 (as claimed): whenever the results view is shown, the redacted text it
\* displays and exports was produced by the method it shows as selected; after
\* onMethodChange has selected another method the displayed redactedText is that
\* method's.
C27_ShownMethodProducedText ==
  (side = "client" /\ processingResult.kind = "result") =>
    /\ processingResult.method = method
    /\ \A k \in DOMAIN replacements :
         \E tokenLen \in TokenSuffixLengths :
           replacements[k] = ClientReplacement(sortedEntities[k], entities, method, tokenLen)

\* C28 (as claimed): each method name the methods tab can select ('Smart
\* Placeholders', 'Complete Removal', 'Tokenization', 'Partial Masking') takes its
\* own branch of the switch of handleTextSubmit; with 'Partial Masking' every
\* entity is replaced by min(length of its text, 8) asterisks.
C28_EachNameOwnBranch ==
  side = "client" =>
    \A k \in DOMAIN replacements :
      /\ method = "Smart Placeholders" => replacements[k].kind = "placeholder"
      /\ method = "Complete Removal" => replacements[k].kind = "removal"
      /\ method = "Tokenization" => replacements[k].kind = "token"
      /\ method = "Partial Masking" =>
           /\ replacements[k].kind = "mask"
           /\ replacements[k].len = Min(Len(sortedEntities[k].text), 8)

\* C29 (as claimed): within one ProcessingResult the ids of the entities are
\* pairwise distinct.
C29_EntityIdsDistinct ==
  processingResult.kind = "result" =>
    \A i, j \in DOMAIN processingResult.entities :
      i # j => processingResult.entities[i].id # processingResult.entities[j].id

\* C30 (as claimed): after any sequence of successful process-pii requests for the
\* same documentId, processing_results holds exactly one row for that document,
\* and so an export-results request for it finds its result.
C30_OneResultRowPerDocument ==
  locals.fn = "Deno.serve" =>
    \A d \in Documents :
      RowsOf(processing_results, d) # {} =>
        /\ Cardinality(RowsOf(processing_results, d)) = 1
        /\ (ret.done /\ arg.endpoint = "export-results" /\ arg.documentId = d)
             => ret.value.status = 200

====
